---- MODULE Spec2Model ----
(***************************************************************************)
(* A model of durable-retry's download pipeline: the range probe, segment  *)
(* planning (NewSegmentManager), the concurrent segment workers driven by  *)
(* RetryPolicy.Retry over Downloader.DownloadSegment, and the merge of the *)
(* segment files (SegmentManager.MergeFiles).                              *)
(*                                                                         *)
(* Errors are strings, "nil" is Go's nil error.  A file's content is a     *)
(* sequence of byte offsets of the remote file: the byte at offset k of    *)
(* the remote file is the number k, so that a missing, duplicated or       *)
(* misplaced byte is visible in a file's content.                          *)
(***************************************************************************)
EXTENDS Integers, Sequences, FiniteSets, TLC

VARIABLES
    cfg,        \* the arguments of the NewSegmentManager call
    sm,         \* the SegmentManager (with its Segments), or the constructor's error
    tmpFiles,   \* segment temp files on disk: segment id -> content
    outFiles,   \* final artifacts on disk: extension -> content
    mpc,        \* where Download (and the MergeFiles it calls) stands
    rs,         \* Downloader.RangeSupport
    ctxDone,    \* ctx has been cancelled
    err,        \* Download's variable err, which the worker closures capture
    errs,       \* the buffered channel errs
    ret,        \* what Download returned ("pending" before it returns)
    wpc,        \* each worker goroutine's position
    attempt,    \* Retry's loop variable, per worker
    lastErr,    \* Retry's variable err, per worker
    taskCalls,  \* per worker: invocations of the task (DownloadSegment)
    onRetryCalls, \* per worker: invocations of OnRetry
    log,        \* per worker: what each of its GETs ended with
    mi,         \* MergeFiles' loop variable i
    del,        \* per segment: state of the goroutine that closes and removes its file
    mergeIn,    \* the segment files' contents when MergeFiles was called
    faults,     \* transport and I/O failures injected so far
    hist,       \* history: facts about the run that the properties refer to
    rp          \* one RetryPolicy.Retry run taken alone: the policy and Retry's locals

planVars == <<cfg, sm, tmpFiles, outFiles>>
runVars == <<mpc, rs, ctxDone, err, errs, ret, wpc, attempt, lastErr, taskCalls,
             onRetryCalls, log, mi, del, mergeIn, faults, hist, rp>>
vars == <<cfg, sm, tmpFiles, outFiles, mpc, rs, ctxDone, err, errs, ret, wpc, attempt,
          lastErr, taskCalls, onRetryCalls, log, mi, del, mergeIn, faults, hist, rp>>

(***************************************************************************)
(* Bounds of the model.                                                    *)
(***************************************************************************)
MaxFileSize == 9
MaxOptSegments == 5
MaxOptSize == 4

DefaultNumberOfSegments == 4

Nil == "nil"

(***************************************************************************)
(* NewSegmentManager                                                       *)
(***************************************************************************)

\* int(math.Ceil(float64(fileSize / segmentSize))): the operands are int64,
\* so the quotient is truncated before it is converted and rounded up.
CeilOfQuotient(fileSize, segmentSize) == fileSize \div segmentSize

\* The mutation of OptionsError that C21 is checked against: the check for
\* negative values is left out.
OptionsErrorExclusiveOnly(ts, sz) ==
    IF ts > 0 /\ sz > 0 THEN "InvalidParam:TotalSegments, SegmentSize:exclusive"
    ELSE Nil

\* The two option checks made before anything else.
OptionsError(ts, sz) ==
    IF ts > 0 /\ sz > 0 THEN "InvalidParam:TotalSegments, SegmentSize:exclusive"
    ELSE IF ts < 0 \/ sz < 0 THEN "InvalidParam:TotalSegments, SegmentSize:negative"
    ELSE Nil

\* TotalSegments and SegmentSize after the planning branches.
PlanCounts(fileSize, ts, sz) ==
    IF fileSize = -1 \/ fileSize = 0
    THEN [TotalSegments |-> 1, SegmentSize |-> 0]
    ELSE IF fileSize > 0
         THEN IF ts > 0 /\ sz = 0
              THEN [TotalSegments |-> ts, SegmentSize |-> fileSize \div ts]
              ELSE IF ts = 0 /\ sz > 0
                   THEN [TotalSegments |-> CeilOfQuotient(fileSize, sz), SegmentSize |-> sz]
                   ELSE [TotalSegments |-> DefaultNumberOfSegments,
                         SegmentSize |-> fileSize \div DefaultNumberOfSegments]
         ELSE [TotalSegments |-> ts, SegmentSize |-> sz]

\* start of segment i (0-based) in the segment loop.
SegmentStart(i, segmentSize) ==
    IF segmentSize > 0 THEN i * segmentSize ELSE 0

\* end of segment i (0-based) in the segment loop.
SegmentEnd(i, total, segmentSize, fileSize) ==
    IF segmentSize > 0
    THEN IF i = total - 1 THEN fileSize - 1 ELSE i * segmentSize + segmentSize - 1
    ELSE 0

\* validateParams, for a non-nil writer.
ValidateParams(start, end, maxSegmentSize) ==
    IF start < 0 \/ end < 0 THEN "InvalidParam:Start, End"
    ELSE IF maxSegmentSize < 0 THEN "InvalidParam:MaxSegmentSize"
    ELSE Nil

\* NewSegment over an *os.File writer: the writer is an io.Seeker, so the
\* segment is resumable; the bufio.Writer starts empty and without error, and
\* the writer is the open file (Open).
NewSegment(id, start, end, maxSegmentSize) ==
    [ID |-> id, Start |-> start, End |-> end, MaxSegmentSize |-> maxSegmentSize,
     Err |-> Nil, Done |-> FALSE, Resumable |-> TRUE,
     BufErr |-> Nil, Buffered |-> 0, Open |-> TRUE]

\* Segment.Close: closes the segment's writer.  (Nothing in Download or
\* MergeFiles calls it.)
Close(seg) == [seg EXCEPT !.Open = FALSE]

\* The value NewSegmentManager returns: Err, and when Err is nil the manager.
\* Segments is 1-indexed here: Segments[i + 1] is the segment with ID i.
NewSegmentManager(fileSize, ts, sz) ==
    IF OptionsError(ts, sz) # Nil
    THEN [Err |-> OptionsError(ts, sz), FileSize |-> fileSize,
          TotalSegments |-> ts, SegmentSize |-> sz, Segments |-> <<>>]
    ELSE LET pc == PlanCounts(fileSize, ts, sz)
             n == pc.TotalSegments
             s == pc.SegmentSize
             segs == [k \in 1..n |->
                        NewSegment(k - 1, SegmentStart(k - 1, s),
                                   SegmentEnd(k - 1, n, s, fileSize), s)]
             bad == {k \in 1..n :
                        ValidateParams(segs[k].Start, segs[k].End, s) # Nil}
         IN  IF bad # {}
             THEN [Err |-> "InvalidParam:segment", FileSize |-> fileSize,
                   TotalSegments |-> n, SegmentSize |-> s, Segments |-> <<>>]
             ELSE [Err |-> Nil, FileSize |-> fileSize,
                   TotalSegments |-> n, SegmentSize |-> s, Segments |-> segs]

\* The mutation of FilesCreated that C22 is checked against: the segment files
\* are created before the options are looked at.
FilesCreatedUnchecked(m) == [i \in 0..(m.TotalSegments - 1) |-> <<>>]

\* The temp files NewSegmentManager leaves on disk.  The option checks return
\* before the segment loop, so a rejection of the options leaves none.  In the
\* loop NewFileWriter (MkdirAll, then OpenFile with O_CREATE|O_APPEND) precedes
\* NewSegment: a segment whose parameters are rejected leaves its own file and
\* those of the segments before it; otherwise there is one empty file per
\* segment.
FilesCreated(m) ==
    IF m.Err = Nil THEN [i \in 0..(m.TotalSegments - 1) |-> <<>>]
    ELSE IF m.Err = "InvalidParam:segment"
    THEN LET bad == {i \in 0..(m.TotalSegments - 1) :
                        ValidateParams(SegmentStart(i, m.SegmentSize),
                                       SegmentEnd(i, m.TotalSegments, m.SegmentSize,
                                                  m.FileSize),
                                       m.SegmentSize) # Nil}
             first == CHOOSE i \in bad : \A j \in bad : i <= j
         IN  [i \in 0..first |-> <<>>]
    ELSE <<>>

NoManager == [Err |-> "none", FileSize |-> 0, TotalSegments |-> 0,
              SegmentSize |-> 0, Segments |-> <<>>]

(***************************************************************************)
(* PlanSpec: NewSegmentManager applied to every input of the bounded sets. *)
(***************************************************************************)
PlanInputs ==
    [fileSize : (-2)..MaxFileSize, ts : (-1)..MaxOptSegments, sz : (-1)..MaxOptSize]

NoRangeSupport == [SupportsRangeRequests |-> FALSE, ContentLength |-> 0, AcceptRanges |-> ""]

\* cancelMidFetch: ctx was cancelled after planning while some worker had not
\* finished its Retry call; idleAtCancel: the workers that had not yet run their
\* first statement at that moment; cancelSeen: workers that observed the cancellation;
\* silent: workers that left at the check before Retry; retryFailed: workers
\* whose Retry call returned an error; published: workers that sent to errs;
\* mergeCalled: MergeFiles was invoked; mergeFault: a file operation of
\* MergeFiles failed.
\* probeStatus: the status of the response to the probe's HEAD (0: none yet).
NoHist == [cancelMidFetch |-> FALSE, idleAtCancel |-> {}, cancelSeen |-> {}, silent |-> {},
           retryFailed |-> {},
           published |-> {}, mergeCalled |-> FALSE, mergeFault |-> FALSE,
           probeStatus |-> 0]

\* No Retry run is looked at on its own.
NoRetryRun == [pc |-> "none"]

\* The state of everything outside the constructor, before Download has run.
RunIdle ==
    /\ mpc = "probe"
    /\ rs = NoRangeSupport
    /\ ctxDone = FALSE
    /\ err = Nil
    /\ errs = <<>>
    /\ ret = "pending"
    /\ wpc = <<>>
    /\ attempt = <<>>
    /\ lastErr = <<>>
    /\ taskCalls = <<>>
    /\ onRetryCalls = <<>>
    /\ log = <<>>
    /\ mi = 0
    /\ del = <<>>
    /\ mergeIn = <<>>
    /\ faults = 0
    /\ hist = NoHist
    /\ rp = NoRetryRun

PlanInit ==
    /\ cfg \in PlanInputs
    /\ sm = NoManager
    /\ tmpFiles = <<>>
    /\ outFiles = <<>>
    /\ RunIdle

PlanCall ==
    /\ sm = NoManager
    /\ sm' = NewSegmentManager(cfg.fileSize, cfg.ts, cfg.sz)
    /\ tmpFiles' = FilesCreated(sm')
    /\ UNCHANGED <<cfg, outFiles>>
    /\ UNCHANGED runVars

PlanNext == PlanCall

PlanSpec == PlanInit /\ [][PlanNext]_vars

(***************************************************************************)
(* The origin and the transport.                                           *)
(***************************************************************************)
RemoteSize == 5       \* bytes of the remote file
MaxRetries == 3       \* RetryPolicy.MaxRetries of the policy Download runs under
MaxFaults == 1        \* transport / body / disk failures the environment injects
MaxPartial == 1       \* bytes a failing copy may have written before it failed

StatusOK == 200
StatusPartialContent == 206
StatusRequestedRangeNotSatisfiable == 416
StatusOther == 500    \* stands for every status other than 200, 206 and 416

ErrCtx == "context canceled"
ErrNet == "transport error"
ErrCopy == "copy error"
ErrRangeRequestNotSupported == "range request not supported"
ErrNoContent == "there is no contents in segments"

Min(a, b) == IF a < b THEN a ELSE b
Max(a, b) == IF a > b THEN a ELSE b

\* bytes lo..hi of the remote file, clipped to the file.
RemoteBytes(lo, hi) ==
    [k \in 1..Max(0, Min(hi, RemoteSize - 1) - lo + 1) |-> lo + k - 1]

WholeBody == RemoteBytes(0, RemoteSize - 1)

(***************************************************************************)
(* Segment                                                                 *)
(***************************************************************************)

\* setErr: installs e only when it is non-nil.
setErr(seg, e) == IF e # Nil THEN [seg EXCEPT !.Err = e] ELSE seg

\* Segment.Flush = bufio.Writer.Flush: the latched error if any, nothing to do
\* on an empty buffer; otherwise the buffered bytes go to the writer.
Flush(seg) ==
    IF seg.BufErr # Nil THEN [seg |-> seg, ret |-> seg.BufErr]
    ELSE [seg |-> [seg EXCEPT !.Buffered = 0], ret |-> Nil]

\* The mutation of setDone that C32 is checked against: the argument is not
\* looked at.
setDoneWhatever(seg, b) ==
    IF seg.Err # Nil THEN [seg |-> seg, ret |-> seg.Err]
    ELSE Flush([seg EXCEPT !.Done = TRUE])

\* setDone: returns the sticky error when b is false or an error is latched,
\* otherwise sets Done and returns what Flush returns.
setDone(seg, b) ==
    IF b = FALSE \/ seg.Err # Nil THEN [seg |-> seg, ret |-> seg.Err]
    ELSE Flush([seg EXCEPT !.Done = b])

\* The mutation of AppendBytes that C6 is checked against: the source is
\* written in front of what the file holds.
PrependBytes(content, bytes) == bytes \o content

\* A write through a handle opened O_APPEND lands at the end of the file.
AppendBytes(content, bytes) == content \o bytes

\* The mutation of ReadFrom that C36 is checked against: the bytes copied stay
\* in the segment's buffer until a flush.
ReadFromBuffered(seg, content, body, fails, k) ==
    IF seg.BufErr # Nil
    THEN [seg |-> seg, content |-> content, ret |-> seg.BufErr]
    ELSE IF fails
         THEN [seg |-> [seg EXCEPT !.BufErr = ErrCopy, !.Buffered = @ + k],
               content |-> content, ret |-> ErrCopy]
         ELSE [seg |-> [seg EXCEPT !.Buffered = @ + Len(body)],
               content |-> content, ret |-> Nil]

\* Segment.ReadFrom(src) over an *os.File writer, src holding `body`; when
\* `fails`, the copy breaks after `k` bytes (a read error of src or a write
\* error of the file).  The position probe (Seek(0, io.SeekCurrent)) succeeds on
\* an open regular file and fails on a closed one; when it fails ReadFrom
\* returns (n, nil) without reading src.  bufio.Writer.ReadFrom returns its
\* latched error if it has one; with an empty buffer and a writer that is an
\* io.ReaderFrom (as *os.File is) it hands src to the writer, so the bytes reach
\* the file without being buffered, and it latches the copy's error.
ReadFrom(seg, content, body, fails, k) ==
    IF seg.Resumable /\ ~seg.Open
    THEN [seg |-> seg, content |-> content, ret |-> Nil]
    ELSE IF seg.BufErr # Nil
    THEN [seg |-> seg, content |-> content, ret |-> seg.BufErr]
    ELSE IF fails
         THEN [seg |-> [seg EXCEPT !.BufErr = ErrCopy],
               content |-> AppendBytes(content, SubSeq(body, 1, k)), ret |-> ErrCopy]
         ELSE [seg |-> seg, content |-> AppendBytes(content, body), ret |-> Nil]

(***************************************************************************)
(* Downloader                                                              *)
(***************************************************************************)

\* UpdateRangeSupportState on a 200 response to HEAD with the given headers.
UpdateRangeSupportState(old, ac, cl) ==
    IF ac = "" /\ cl <= 0 THEN old
    ELSE [SupportsRangeRequests |-> TRUE, ContentLength |-> cl, AcceptRanges |-> ac]

\* Whether DownloadSegment's GET carries a Range header.
SendsRange(support) == support.SupportsRangeRequests

\* The body of a response to the GET of seg: the requested range on 206, the
\* whole file on 200.
ResponseBody(status, seg) ==
    IF status = StatusPartialContent THEN RemoteBytes(seg.Start, seg.End)
    ELSE IF status = StatusOK THEN WholeBody
    ELSE <<>>

\* What one GET may end with.  kind "ok": the exchange went through; "do":
\* httpClient.Do failed; "copy": the body copy failed after k bytes; "pre": ctx
\* was found cancelled before dispatch.  An exchange fails because the
\* environment breaks it (mayFail) or because ctx was cancelled under it; one
\* that was nearly complete when ctx was cancelled still goes through.  (A body
\* copy is broken by the environment only: a cancellation that breaks it has the
\* effects of one the environment breaks.)
Outcomes(seg, support, cancelled, mayFail, mayCut) ==
    LET statuses == IF SendsRange(support)
                    THEN {StatusOK, StatusPartialContent,
                          StatusRequestedRangeNotSatisfiable, StatusOther}
                    ELSE {StatusOK, StatusOther}
        bodied == statuses \cap {StatusOK, StatusPartialContent}
        cut(st) == 0..Min(MaxPartial, Max(0, Len(ResponseBody(st, seg)) - 1))
        copies == UNION {{[kind |-> "copy", status |-> st, k |-> k] : k \in cut(st)} :
                           st \in bodied}
        do == {[kind |-> "do", status |-> 0, k |-> 0]}
    IN  {[kind |-> "ok", status |-> st, k |-> 0] : st \in statuses}
        \cup (IF mayFail THEN do ELSE {})
        \cup (IF mayCut THEN copies ELSE {})
        \cup (IF cancelled THEN do \cup {[kind |-> "pre", status |-> 0, k |-> 0]} ELSE {})

\* DownloadSegment from the cancellation check to its return: the segment and
\* its file afterwards, and the error returned.
DownloadSegment(seg, content, o) ==
    IF o.kind = "pre" THEN [seg |-> seg, content |-> content, ret |-> ErrCtx]
    ELSE IF o.kind = "do"
    THEN [seg |-> setErr(seg, ErrNet), content |-> content, ret |-> ErrNet]
    ELSE IF o.status = StatusOK
    THEN LET r == ReadFrom(seg, content, ResponseBody(o.status, seg), o.kind = "copy", o.k)
         IN  IF r.ret # Nil
             THEN [seg |-> setErr(r.seg, r.ret), content |-> r.content, ret |-> r.ret]
             ELSE [seg |-> setDone(r.seg, TRUE).seg, content |-> r.content,
                   ret |-> setDone(r.seg, TRUE).ret]
    ELSE IF o.status = StatusRequestedRangeNotSatisfiable
    THEN [seg |-> setDone(seg, TRUE).seg, content |-> content, ret |-> setDone(seg, TRUE).ret]
    ELSE IF o.status = StatusPartialContent
    THEN LET r == ReadFrom(seg, content, ResponseBody(o.status, seg), o.kind = "copy", o.k)
         IN  IF r.ret # Nil
             THEN [seg |-> setErr(r.seg, r.ret), content |-> r.content, ret |-> r.ret]
             ELSE [seg |-> r.seg, content |-> r.content, ret |-> Nil]
    ELSE [seg |-> setDone(seg, FALSE).seg, content |-> content, ret |-> setDone(seg, FALSE).ret]

(***************************************************************************)
(* DownloadManager.Download: probe and planning.                           *)
(***************************************************************************)
Workers == 1..sm.TotalSegments

Returns(e) ==
    /\ ret' = e
    /\ mpc' = "done"

\* The Accept-Ranges and Content-Length headers (-1: absent) a 200 response to
\* HEAD may carry.
ProbeHeaders == {<<"", -1>>, <<"", 0>>, <<"bytes", -1>>, <<"bytes", 0>>, <<"bytes", RemoteSize>>}

\* The statuses the response to the probe's HEAD may have.
ProbeStatuses == {StatusOK, StatusPartialContent, StatusOther}

\* The mutation of ProbeRejects that C24 is checked against: the status of the
\* probe's response is not looked at.
ProbeAcceptsAny(status) == FALSE

\* resp.StatusCode != http.StatusOK
ProbeRejects(status) == status # StatusOK

\* ValidateRangeSupport(ctx, UpdateRangeSupportState) and the check of its
\* error: httpClient.Do fails (always, once ctx is cancelled), or the response
\* has a status that is rejected, or the callback runs on the response.
Probe ==
    /\ UNCHANGED rp
    /\ mpc = "probe"
    /\ \/ /\ Returns(ErrNet)
          /\ UNCHANGED <<rs, hist>>
       \/ /\ ~ctxDone
          /\ \E st \in ProbeStatuses :
                /\ hist' = [hist EXCEPT !.probeStatus = st]
                /\ IF ProbeRejects(st)
                   THEN /\ Returns(ErrRangeRequestNotSupported)
                        /\ rs' = rs
                   ELSE /\ \E h \in ProbeHeaders :
                              rs' = UpdateRangeSupportState(rs, h[1], h[2])
                        /\ mpc' = "plan"
                        /\ ret' = ret
    /\ UNCHANGED <<cfg, sm, tmpFiles, outFiles, ctxDone, err, errs, wpc, attempt, lastErr,
                   taskCalls, onRetryCalls, log, mi, del, mergeIn, faults>>

\* NewSegmentManager(dir, ContentLength) without options, the channel, the
\* WaitGroup and the go statements of the fan-out loop.
Plan ==
    /\ UNCHANGED rp
    /\ mpc = "plan"
    /\ cfg' = [fileSize |-> rs.ContentLength, ts |-> 0, sz |-> 0]
    /\ sm' = NewSegmentManager(rs.ContentLength, 0, 0)
    /\ tmpFiles' = FilesCreated(sm')
    /\ err' = sm'.Err
    /\ IF sm'.Err # Nil
       THEN /\ Returns(sm'.Err)
            /\ UNCHANGED <<wpc, attempt, lastErr, taskCalls, onRetryCalls, log, del>>
       ELSE /\ mpc' = "wait"
            /\ ret' = ret
            /\ wpc' = [w \in 1..sm'.TotalSegments |-> "start"]
            /\ attempt' = [w \in 1..sm'.TotalSegments |-> 0]
            /\ lastErr' = [w \in 1..sm'.TotalSegments |-> Nil]
            /\ taskCalls' = [w \in 1..sm'.TotalSegments |-> 0]
            /\ onRetryCalls' = [w \in 1..sm'.TotalSegments |-> 0]
            /\ log' = [w \in 1..sm'.TotalSegments |-> <<>>]
            /\ del' = [w \in 1..sm'.TotalSegments |-> "none"]
    /\ errs' = <<>>
    /\ UNCHANGED <<outFiles, rs, ctxDone, mi, mergeIn, faults, hist>>

\* The environment's failures are bounded.  In a download of one segment it
\* breaks at most MaxFaults exchanges, in the transport or in the body copy.  In
\* a download of several segments it breaks at most one exchange, in the
\* transport, and it either breaks an exchange or cancels ctx, not both.
SingleSegment == Len(sm.Segments) <= 1
MayBreak == IF SingleSegment THEN faults < MaxFaults
            ELSE faults < Min(1, MaxFaults) /\ ~ctxDone
MayCut == SingleSegment /\ faults < MaxFaults
MayCancel == SingleSegment \/ faults = 0

\* ctx is cancelled by its owner.
Cancel ==
    /\ UNCHANGED rp
    /\ ~ctxDone
    /\ mpc # "done"
    /\ MayCancel
    /\ ctxDone' = TRUE
    /\ hist' = [hist EXCEPT
                   !.cancelMidFetch =
                       mpc = "wait"
                       /\ \E w \in Workers : wpc[w] \in {"start", "top", "inflight"},
                   !.idleAtCancel =
                       IF mpc = "wait" THEN {w \in Workers : wpc[w] = "start"} ELSE {}]
    /\ UNCHANGED <<cfg, sm, tmpFiles, outFiles, mpc, rs, err, errs, ret, wpc, attempt, lastErr,
                   taskCalls, onRetryCalls, log, mi, del, mergeIn, faults>>

(***************************************************************************)
(* A worker goroutine: the check of ctx, Retry over DownloadSegment, and   *)
(* the publication of the error.                                           *)
(***************************************************************************)

\* Retry returns r to the worker, which assigns it to the captured variable err.
RetryReturns(w, r) ==
    /\ err' = r
    /\ wpc' = [wpc EXCEPT ![w] = "chk"]

\* The mutation of StartsSilently that C10 is checked against: a worker that
\* finds ctx cancelled reports it like any other error.
StartsReporting(cancelled) == FALSE

\* Whether the worker returns at its first select, before calling Retry.
StartsSilently(cancelled) == cancelled

\* The goroutine's first select, then the entry of Retry (attempt := 1 and the
\* loop condition).
WorkerStart(w) ==
    /\ UNCHANGED rp
    /\ mpc = "wait"
    /\ wpc[w] = "start"
    /\ IF ctxDone /\ StartsSilently(ctxDone)
       THEN /\ wpc' = [wpc EXCEPT ![w] = "exit"]
            /\ hist' = [hist EXCEPT !.cancelSeen = @ \cup {w}, !.silent = @ \cup {w}]
            /\ UNCHANGED <<err, attempt>>
       ELSE /\ attempt' = [attempt EXCEPT ![w] = 1]
            /\ IF 1 <= MaxRetries
               THEN /\ wpc' = [wpc EXCEPT ![w] = "top"]
                    /\ UNCHANGED <<err, hist>>
               ELSE /\ RetryReturns(w, Nil)
                    /\ hist' = hist
    /\ UNCHANGED <<cfg, sm, tmpFiles, outFiles, mpc, rs, ctxDone, errs, ret, lastErr,
                   taskCalls, onRetryCalls, log, mi, del, mergeIn, faults>>

\* The top of Retry's loop body: the select on ctx.Done, then the call of the
\* task, DownloadSegment, up to the dispatch of its GET.
WorkerTop(w) ==
    /\ UNCHANGED rp
    /\ mpc = "wait"
    /\ wpc[w] = "top"
    /\ IF ctxDone
       THEN /\ RetryReturns(w, ErrCtx)
            /\ hist' = [hist EXCEPT !.cancelSeen = @ \cup {w}, !.retryFailed = @ \cup {w}]
            /\ UNCHANGED taskCalls
       ELSE /\ wpc' = [wpc EXCEPT ![w] = "inflight"]
            /\ taskCalls' = [taskCalls EXCEPT ![w] = @ + 1]
            /\ UNCHANGED <<err, hist>>
    /\ UNCHANGED <<cfg, sm, tmpFiles, outFiles, mpc, rs, ctxDone, errs, ret, attempt, lastErr,
                   onRetryCalls, log, mi, del, mergeIn, faults>>

\* The values p.seed.Int63n(int64(p.Jitter)) may return; Int63n panics when
\* its argument is not positive.
JitterDraws(jitter) == 0..(jitter - 1)

\* Whether the jitter draw p.seed.Int63n(int64(p.Jitter)) of the policy Download
\* runs under panics.  Spec leaves the policy's jitter open and takes it to be
\* positive; LiveSpec fixes the policy in rp.
DrawPanics == rp.pc = "download" /\ JitterDraws(rp.policy.Jitter) = {}

\* The rest of DownloadSegment (the exchange and the routing on the status
\* code), then Retry's handling of the task's result.  On nil Retry returns.
\* Otherwise (the policy has no ShouldRetry and no total cap) the jitter is
\* drawn, which panics in the worker's goroutine and so ends the process when
\* the policy's jitter is not positive; else OnRetry is called, time.Sleep runs
\* to its end whatever happens to ctx, and attempt++ is followed by the loop
\* condition: another turn, or the return of the last error.  When ctx is
\* cancelled by then, the next turn's select returns ctx.Err() at once.
WorkerResponse(w) ==
    /\ UNCHANGED rp
    /\ mpc = "wait"
    /\ wpc[w] = "inflight"
    /\ \E o \in Outcomes(sm.Segments[w], rs, ctxDone, MayBreak, MayCut) :
          LET d == DownloadSegment(sm.Segments[w], tmpFiles[w - 1], o)
          IN  /\ sm' = [sm EXCEPT !.Segments[w] = d.seg]
              /\ tmpFiles' = [tmpFiles EXCEPT ![w - 1] = d.content]
              /\ log' = [log EXCEPT ![w] = Append(@, o.status)]
              /\ faults' = IF ~ctxDone /\ o.kind # "ok" THEN faults + 1 ELSE faults
              /\ lastErr' = [lastErr EXCEPT ![w] = d.ret]
              /\ IF d.ret = Nil
                 THEN /\ RetryReturns(w, Nil)
                      /\ UNCHANGED <<onRetryCalls, hist, attempt, mpc>>
                 ELSE IF DrawPanics
                 THEN /\ wpc' = [wpc EXCEPT ![w] = "panic"]
                      /\ mpc' = "panic"
                      /\ UNCHANGED <<onRetryCalls, hist, attempt, err>>
                 ELSE /\ onRetryCalls' = [onRetryCalls EXCEPT ![w] = @ + 1]
                      /\ attempt' = [attempt EXCEPT ![w] = @ + 1]
                      /\ mpc' = mpc
                      /\ IF attempt[w] + 1 <= MaxRetries /\ ~ctxDone
                         THEN /\ wpc' = [wpc EXCEPT ![w] = "top"]
                              /\ err' = err
                              /\ hist' = hist
                         ELSE /\ RetryReturns(w, IF attempt[w] + 1 <= MaxRetries
                                                 THEN ErrCtx ELSE d.ret)
                              /\ hist' = [hist EXCEPT
                                            !.cancelSeen = IF ctxDone THEN @ \cup {w} ELSE @,
                                            !.retryFailed = @ \cup {w}]
    /\ UNCHANGED <<cfg, outFiles, rs, ctxDone, errs, ret, taskCalls, mi, del, mergeIn>>

\* A send on errs, made with capacity sm.TotalSegments, blocks while the
\* channel is full.
SendBlocks(ch, m) == Len(ch) >= m.TotalSegments

\* `if err != nil { errs <- err }` on the captured variable, then wg.Done.
WorkerCheck(w) ==
    /\ UNCHANGED rp
    /\ mpc = "wait"
    /\ wpc[w] = "chk"
    /\ err # Nil => ~SendBlocks(errs, sm)
    /\ IF err # Nil
       THEN /\ errs' = Append(errs, err)
            /\ hist' = [hist EXCEPT !.published = @ \cup {w}]
       ELSE UNCHANGED <<errs, hist>>
    /\ wpc' = [wpc EXCEPT ![w] = "exit"]
    /\ UNCHANGED <<cfg, sm, tmpFiles, outFiles, mpc, rs, ctxDone, err, ret, attempt, lastErr,
                   taskCalls, onRetryCalls, log, mi, del, mergeIn, faults>>

(***************************************************************************)
(* Download after the fan-out: the join, the drain of errs, MergeFiles.    *)
(***************************************************************************)
Sniff == 512          \* bytes MergeFiles reads from segment 0's file

\* http.DetectContentType on the first bytes of a file.  The remote file is a
\* PDF, recognised by the byte at its offset 0; anything else is unknown binary
\* data.
DetectContentType(head) ==
    IF Len(head) > 0 /\ head[1] = 0 THEN "application/pdf" ELSE "application/octet-stream"

commonMimeTypes ==
    [t \in {"application/pdf", "application/octet-stream"} |->
        IF t = "application/pdf" THEN ".pdf" ELSE ".bin"]

\* detectType: the table's extension for the sniffed media type.  Every type
\* DetectContentType yields here is in the table.
detectType(head) == commonMimeTypes[DetectContentType(head)]

\* The mutation of JoinReturns that C31 is checked against: Download goes on
\* to close and drain errs without waiting for the workers.
JoinSkipped(pcs) == TRUE

\* wg.Wait of Download returns once every worker has called wg.Done.
JoinReturns(pcs) == \A w \in DOMAIN pcs : pcs[w] = "exit"

\* wg.Wait, close(errs), the drain of errs and the decision on its length; with
\* no error, the call of MergeFiles, whose first statement checks the segments.
Join ==
    /\ UNCHANGED rp
    /\ mpc = "wait"
    /\ JoinReturns(wpc)
    /\ IF Len(errs) > 0
       THEN /\ Returns("download encountered following errors")
            /\ UNCHANGED <<hist, mergeIn>>
       ELSE /\ hist' = [hist EXCEPT !.mergeCalled = TRUE]
            /\ mergeIn' = tmpFiles
            /\ IF Len(sm.Segments) = 0
               THEN Returns(ErrNoContent)
               ELSE /\ mpc' = "sniff"
                    /\ ret' = ret
    /\ UNCHANGED <<cfg, sm, tmpFiles, outFiles, rs, ctxDone, err, errs, wpc, attempt, lastErr,
                   taskCalls, onRetryCalls, log, mi, del, faults>>

\* A file operation of MergeFiles fails: the error is returned at once.
MergeFails ==
    /\ faults' = faults
    /\ hist' = [hist EXCEPT !.mergeFault = TRUE]
    /\ Returns("SegmentError")

\* MergeFiles: segment 0's file is opened and its first 512 bytes are read.
\* Reading an empty file returns io.EOF, which MergeFiles returns as an error.
MergeSniff ==
    /\ UNCHANGED rp
    /\ mpc = "sniff"
    /\ \/ /\ MergeFails
          /\ mi' = mi
       \/ /\ tmpFiles[0] = <<>>
          /\ Returns("SegmentError: reading segment0 failed: EOF")
          /\ UNCHANGED <<mi, faults, hist>>
       \/ /\ tmpFiles[0] # <<>>
          /\ mi' = 1
          /\ mpc' = "append"
          /\ UNCHANGED <<ret, faults, hist>>
    /\ UNCHANGED <<cfg, sm, tmpFiles, outFiles, rs, ctxDone, err, errs, wpc, attempt, lastErr,
                   taskCalls, onRetryCalls, log, del, mergeIn>>

\* One turn of MergeFiles' loop: segment i's file is opened and copied into
\* segment 0 by segment0.ReadFrom, then the goroutine that closes and removes
\* the file is started.
MergeAppend ==
    /\ UNCHANGED rp
    /\ mpc = "append"
    /\ mi < Len(sm.Segments)
    /\ \/ /\ MergeFails                  \* NewFileWriter fails
          /\ UNCHANGED <<sm, tmpFiles, mi, del>>
       \/ \E fails \in BOOLEAN :
          \E k \in 0..(IF fails THEN Min(MaxPartial, Max(0, Len(tmpFiles[mi]) - 1)) ELSE 0) :
             LET r == ReadFrom(sm.Segments[1], tmpFiles[0], tmpFiles[mi], fails, k)
             IN  /\ sm' = [sm EXCEPT !.Segments[1] = r.seg]
                 /\ tmpFiles' = [tmpFiles EXCEPT ![0] = r.content]
                 /\ IF r.ret # Nil
                    THEN /\ Returns("SegmentError")
                         /\ faults' = faults
                         /\ hist' = [hist EXCEPT !.mergeFault = @ \/ fails]
                         /\ UNCHANGED <<mi, del>>
                    ELSE /\ del' = [del EXCEPT ![mi + 1] = "pending"]
                         /\ mi' = mi + 1
                         /\ UNCHANGED <<mpc, ret, faults, hist>>
    /\ UNCHANGED <<cfg, outFiles, rs, ctxDone, err, errs, wpc, attempt, lastErr,
                   taskCalls, onRetryCalls, log, mergeIn>>

\* What file.Close and os.Remove leave of the temp files.
RemoveFile(files, i) == [j \in (DOMAIN files) \ {i} |-> files[j]]

\* A goroutine started by MergeFiles closes and removes segment i's file.
MergeRemove(i) ==
    /\ UNCHANGED rp
    /\ i + 1 \in DOMAIN del
    /\ del[i + 1] = "pending"
    /\ del' = [del EXCEPT ![i + 1] = "done"]
    /\ tmpFiles' = RemoveFile(tmpFiles, i)
    /\ UNCHANGED <<cfg, sm, outFiles, mpc, rs, ctxDone, err, errs, ret, wpc, attempt, lastErr,
                   taskCalls, onRetryCalls, log, mi, mergeIn, faults, hist>>

\* os.Rename of segment 0's file to <dir>/<filename><ext>.
Rename(files, outs, ext) ==
    [tmp |-> RemoveFile(files, 0),
     out |-> [e \in (DOMAIN outs) \cup {ext} |-> IF e = ext THEN files[0] ELSE outs[e]]]

\* The mutation of WaitReturns that C9 is checked against: MergeFiles goes on
\* without waiting for the goroutines it started.
WaitSkipped(d) == TRUE

\* wg.Wait returns once every goroutine MergeFiles started has called wg.Done.
WaitReturns(d) == \A w \in DOMAIN d : d[w] # "pending"

\* After the loop: wg.Wait, segment0.setDone(true), os.Rename.
MergeFinish ==
    /\ UNCHANGED rp
    /\ mpc = "append"
    /\ mi >= Len(sm.Segments)
    /\ WaitReturns(del)
    /\ LET d == setDone(sm.Segments[1], TRUE)
           ext == detectType(SubSeq(mergeIn[0], 1, Min(Sniff, Len(mergeIn[0]))))
       IN  /\ sm' = [sm EXCEPT !.Segments[1] = d.seg]
           /\ IF d.ret # Nil
              THEN /\ Returns("SegmentError: closing the segment 0 failed")
                   /\ UNCHANGED <<tmpFiles, outFiles, faults, hist>>
              ELSE \/ /\ MergeFails              \* os.Rename fails
                      /\ UNCHANGED <<tmpFiles, outFiles>>
                   \/ /\ tmpFiles' = Rename(tmpFiles, outFiles, ext).tmp
                      /\ outFiles' = Rename(tmpFiles, outFiles, ext).out
                      /\ Returns(Nil)
                      /\ UNCHANGED <<faults, hist>>
    /\ UNCHANGED <<cfg, rs, ctxDone, err, errs, wpc, attempt, lastErr,
                   taskCalls, onRetryCalls, log, mi, del, mergeIn>>

(***************************************************************************)
(* Spec: one run of Download against an origin and a disk that may fail.   *)
(***************************************************************************)
Init ==
    /\ cfg = [fileSize |-> 0, ts |-> 0, sz |-> 0]
    /\ sm = NoManager
    /\ tmpFiles = <<>>
    /\ outFiles = <<>>
    /\ RunIdle

Next ==
    \/ Probe
    \/ Plan
    \/ Cancel
    \/ \E w \in Workers : WorkerStart(w)
    \/ \E w \in Workers : WorkerTop(w)
    \/ \E w \in Workers : WorkerResponse(w)
    \/ \E w \in Workers : WorkerCheck(w)
    \/ Join
    \/ MergeSniff
    \/ MergeAppend
    \/ \E i \in DOMAIN tmpFiles : MergeRemove(i)
    \/ MergeFinish

Spec == Init /\ [][Next]_vars

(***************************************************************************)
(* SegSpec: the segment of a one-segment manager under any sequence of     *)
(* download attempts (DownloadSegment calls), setErr and setDone calls.    *)
(***************************************************************************)
MaxCalls == 3         \* DownloadSegment calls made in all

RECURSIVE CallsMade(_, _)
CallsMade(calls, n) == IF n = 0 THEN 0 ELSE CallsMade(calls, n - 1) + calls[n]

SegInit ==
    /\ \E h \in ProbeHeaders :
          /\ rs = UpdateRangeSupportState(NoRangeSupport, h[1], h[2])
          /\ cfg = [fileSize |-> rs.ContentLength, ts |-> IF rs.ContentLength > 0 THEN 1 ELSE 0,
                    sz |-> 0]
    /\ sm = NewSegmentManager(cfg.fileSize, cfg.ts, cfg.sz)
    /\ tmpFiles = FilesCreated(sm)
    /\ outFiles = <<>>
    /\ mpc = "wait"
    /\ ctxDone = FALSE
    /\ err = Nil
    /\ errs = <<>>
    /\ ret = "pending"
    /\ wpc = [w \in DOMAIN sm.Segments |-> "start"]
    /\ attempt = [w \in DOMAIN sm.Segments |-> 0]
    /\ lastErr = [w \in DOMAIN sm.Segments |-> Nil]
    /\ taskCalls = [w \in DOMAIN sm.Segments |-> 0]
    /\ onRetryCalls = [w \in DOMAIN sm.Segments |-> 0]
    /\ log = [w \in DOMAIN sm.Segments |-> <<>>]
    /\ mi = 0
    /\ del = [w \in DOMAIN sm.Segments |-> "none"]
    /\ mergeIn = <<>>
    /\ faults = 0
    /\ hist = NoHist
    /\ rp = NoRetryRun

\* One call of DownloadSegment on segment w, with any outcome of its GET.
SegAttempt(w) ==
    /\ UNCHANGED rp
    /\ CallsMade(taskCalls, Len(taskCalls)) < MaxCalls
    /\ \E o \in Outcomes(sm.Segments[w], rs, ctxDone, TRUE, TRUE) :
          LET d == DownloadSegment(sm.Segments[w], tmpFiles[w - 1], o)
          IN  /\ sm' = [sm EXCEPT !.Segments[w] = d.seg]
              /\ tmpFiles' = [tmpFiles EXCEPT ![w - 1] = d.content]
              /\ log' = [log EXCEPT ![w] = Append(@, o.status)]
              /\ lastErr' = [lastErr EXCEPT ![w] = d.ret]
    /\ taskCalls' = [taskCalls EXCEPT ![w] = @ + 1]
    /\ UNCHANGED <<cfg, outFiles, mpc, rs, ctxDone, err, errs, ret, wpc, attempt,
                   onRetryCalls, mi, del, mergeIn, faults, hist>>

\* One call of setErr on segment w.
SegSetErr(w) ==
    /\ UNCHANGED rp
    /\ \E e \in {Nil, ErrNet} : sm' = [sm EXCEPT !.Segments[w] = setErr(@, e)]
    /\ UNCHANGED <<cfg, tmpFiles, outFiles, mpc, rs, ctxDone, err, errs, ret, wpc, attempt,
                   lastErr, taskCalls, onRetryCalls, log, mi, del, mergeIn, faults, hist>>

\* One call of setDone on segment w.
SegSetDone(w) ==
    /\ UNCHANGED rp
    /\ \E b \in BOOLEAN :
          /\ sm' = [sm EXCEPT !.Segments[w] = setDone(@, b).seg]
          /\ lastErr' = [lastErr EXCEPT ![w] = setDone(sm.Segments[w], b).ret]
    /\ UNCHANGED <<cfg, tmpFiles, outFiles, mpc, rs, ctxDone, err, errs, ret, wpc, attempt,
                   taskCalls, onRetryCalls, log, mi, del, mergeIn, faults, hist>>

\* One call of Close on segment w.
SegClose(w) ==
    /\ UNCHANGED rp
    /\ sm.Segments[w].Open
    /\ sm' = [sm EXCEPT !.Segments[w] = Close(@)]
    /\ UNCHANGED <<cfg, tmpFiles, outFiles, mpc, rs, ctxDone, err, errs, ret, wpc, attempt,
                   lastErr, taskCalls, onRetryCalls, log, mi, del, mergeIn, faults, hist>>

SegNext ==
    \/ \E w \in DOMAIN sm.Segments : SegAttempt(w)
    \/ \E w \in DOMAIN sm.Segments : SegSetErr(w)
    \/ \E w \in DOMAIN sm.Segments : SegSetDone(w)
    \/ \E w \in DOMAIN sm.Segments : SegClose(w)

SegSpec == SegInit /\ [][SegNext]_vars

(***************************************************************************)
(* RetrySpec: one RetryPolicy.Retry run, for every policy of the bounded   *)
(* sets, every sequence of task results, every jitter draw and every       *)
(* moment of cancellation.  Durations are counted in milliseconds;         *)
(* BackoffFactor is counted in halves, so that the truncation of           *)
(* time.Duration(float64(attempt) * BackoffFactor) shows.                  *)
(***************************************************************************)
MaxPolicyRetries == 3     \* largest RetryPolicy.MaxRetries
MaxDelay == 1             \* largest RetryPolicy.RetryDelay
MaxBackoffHalves == 2     \* largest RetryPolicy.BackoffFactor, in halves
MaxJitter == 2            \* largest RetryPolicy.Jitter
MaxCap == 3               \* largest RetryPolicy.MaxTotalRetryDuration

ErrMaxTotalRetryDurationExceeded == "maximum total retry duration exceeded"
PanicInt63n == "panic: invalid argument to Int63n"

\* The predicates a policy's ShouldRetry may be: unset, or one that accepts
\* every error, none, or transport errors only.
ShouldRetryKinds == {"unset", "all", "never", "transport"}

Policies ==
    [MaxRetries : 0..MaxPolicyRetries,
     RetryDelay : 0..MaxDelay,
     BackoffHalves : 0..MaxBackoffHalves,
     Jitter : 0..MaxJitter,
     ShouldRetry : ShouldRetryKinds,
     MaxTotalRetryDuration : 0..MaxCap,
     OnRetry : BOOLEAN]

\* What the task may return.
TaskResults == {Nil, ErrNet, ErrCopy}

\* The off-by-one mutation of LoopContinues that C11 is checked against.
LoopRunsOnceMore(a, maxRetries) == a <= maxRetries + 1

\* The loop condition attempt <= p.MaxRetries.
LoopContinues(a, maxRetries) == a <= maxRetries

\* The mutation of CtxObserved that C15 is checked against: the select at the
\* loop top always takes its default branch.
CtxIgnored(cancelled) == FALSE

\* The select at the loop top: ctx.Done is ready.
CtxObserved(cancelled) == cancelled

\* The mutation of Rejects that C13 is checked against: ShouldRetry is not
\* consulted.
NeverRejects(policy, e) == FALSE

\* p.ShouldRetry != nil && !p.ShouldRetry(err)
Rejects(policy, e) ==
    /\ policy.ShouldRetry # "unset"
    /\ \/ policy.ShouldRetry = "never"
       \/ policy.ShouldRetry = "transport" /\ e # ErrNet

\* The mutation of BackoffTerm that C38 is checked against: the term does not
\* grow with the attempt.
BackoffConstant(a, halves) == halves \div 2

\* The mutation of BackoffTerm that C17 is checked against: the term doubles
\* with every attempt.
BackoffDoubling(a, halves) == (2 ^ a * halves) \div 2

\* time.Duration(float64(attempt) * p.BackoffFactor) * time.Millisecond: the
\* product is truncated to an integer number of milliseconds.
BackoffTerm(a, halves) == (a * halves) \div 2

\* The mutation of CapExceeded that C14 is checked against: the cap is not
\* enforced.
CapNotEnforced(policy, total) == FALSE

\* p.MaxTotalRetryDuration > 0 and the accumulated sleep is over it.
CapExceeded(policy, total) ==
    policy.MaxTotalRetryDuration > 0 /\ total > policy.MaxTotalRetryDuration

\* All the variables but rp and ctxDone.
downloadVars == <<cfg, sm, tmpFiles, outFiles, mpc, rs, err, errs, ret, wpc, attempt,
                  lastErr, taskCalls, onRetryCalls, log, mi, del, mergeIn, faults, hist>>

\* Retry has been entered: err is nil, totalRetryDuration is 0, attempt is 1.
\* results: what each task invocation returned; sleeps: the nextRetryIn of each
\* time.Sleep begun; announced: the nextRetryIn of each OnRetry call; remaining:
\* what is left of the running sleep; slept: the time spent in time.Sleep;
\* cancelledAsleep: ctx was cancelled during a sleep that had time left;
\* sleptCancelled: the time spent in time.Sleep after such a cancellation.
RetryInit ==
    /\ cfg = [fileSize |-> 0, ts |-> 0, sz |-> 0]
    /\ sm = NoManager
    /\ tmpFiles = <<>>
    /\ outFiles = <<>>
    /\ mpc = "probe"
    /\ rs = NoRangeSupport
    /\ ctxDone \in BOOLEAN
    /\ err = Nil
    /\ errs = <<>>
    /\ ret = "pending"
    /\ wpc = <<>>
    /\ attempt = <<>>
    /\ lastErr = <<>>
    /\ taskCalls = <<>>
    /\ onRetryCalls = <<>>
    /\ log = <<>>
    /\ mi = 0
    /\ del = <<>>
    /\ mergeIn = <<>>
    /\ faults = 0
    /\ hist = NoHist
    /\ \E policy \in Policies :
          rp = [policy |-> policy, pc |-> "top", attempt |-> 1, err |-> Nil,
                totalRetryDuration |-> 0, results |-> <<>>, sleeps |-> <<>>,
                announced |-> <<>>, remaining |-> 0, slept |-> 0,
                cancelledAsleep |-> FALSE, sleptCancelled |-> 0,
                ret |-> "pending"]

\* ctx is cancelled while Retry runs.
RetryCancel ==
    /\ ~ctxDone
    /\ rp.pc \in {"top", "task", "sleep"}
    /\ ctxDone' = TRUE
    /\ rp' = [rp EXCEPT !.cancelledAsleep = rp.pc = "sleep" /\ rp.remaining > 0]
    /\ UNCHANGED downloadVars

\* The loop condition, the select on ctx.Done and the call of the task.
RetryTop ==
    /\ rp.pc = "top"
    /\ rp' = IF ~LoopContinues(rp.attempt, rp.policy.MaxRetries)
             THEN [rp EXCEPT !.pc = "done", !.ret = rp.err]
             ELSE IF CtxObserved(ctxDone)
             THEN [rp EXCEPT !.pc = "done", !.ret = ErrCtx]
             ELSE [rp EXCEPT !.pc = "task"]
    /\ UNCHANGED ctxDone
    /\ UNCHANGED downloadVars

\* From the task's return with a non-nil error e that ShouldRetry accepts to
\* the call of time.Sleep, with the jitter draw j.
RetryPlansSleep(e, j) ==
    LET run == [rp EXCEPT !.err = e, !.results = Append(@, e)]
        nextRetryIn == rp.policy.RetryDelay
                         + BackoffTerm(rp.attempt, rp.policy.BackoffHalves) + j
        total == IF rp.policy.MaxTotalRetryDuration > 0
                 THEN rp.totalRetryDuration + nextRetryIn
                 ELSE rp.totalRetryDuration
    IN  IF CapExceeded(rp.policy, total)
        THEN [run EXCEPT !.totalRetryDuration = total, !.pc = "done",
                         !.ret = ErrMaxTotalRetryDurationExceeded]
        ELSE [run EXCEPT !.totalRetryDuration = total, !.pc = "sleep",
                         !.announced = IF rp.policy.OnRetry
                                       THEN Append(@, nextRetryIn) ELSE @,
                         !.sleeps = Append(@, nextRetryIn),
                         !.remaining = nextRetryIn]

\* The task returns e: nil ends the run, an error ShouldRetry rejects ends it,
\* any other error leads to the sleep, unless the jitter draw panics.
RetryTaskReturns ==
    /\ rp.pc = "task"
    /\ \E e \in TaskResults :
          IF e = Nil
          THEN rp' = [rp EXCEPT !.err = e, !.results = Append(@, e),
                                !.pc = "done", !.ret = Nil]
          ELSE IF Rejects(rp.policy, e)
          THEN rp' = [rp EXCEPT !.err = e, !.results = Append(@, e),
                                !.pc = "done", !.ret = e]
          ELSE IF JitterDraws(rp.policy.Jitter) = {}
          THEN rp' = [rp EXCEPT !.err = e, !.results = Append(@, e),
                                !.pc = "done", !.ret = PanicInt63n]
          ELSE \E j \in JitterDraws(rp.policy.Jitter) : rp' = RetryPlansSleep(e, j)
    /\ UNCHANGED ctxDone
    /\ UNCHANGED downloadVars

\* One millisecond of time.Sleep goes by, whatever the state of ctx.
RetryTick ==
    /\ rp.pc = "sleep"
    /\ rp.remaining > 0
    /\ rp' = [rp EXCEPT !.remaining = @ - 1, !.slept = @ + 1,
                        !.sleptCancelled = IF rp.cancelledAsleep THEN @ + 1 ELSE @]
    /\ UNCHANGED ctxDone
    /\ UNCHANGED downloadVars

\* time.Sleep returns; attempt++.
RetryWake ==
    /\ rp.pc = "sleep"
    /\ rp.remaining = 0
    /\ rp' = [rp EXCEPT !.pc = "top", !.attempt = @ + 1]
    /\ UNCHANGED ctxDone
    /\ UNCHANGED downloadVars

RetryNext ==
    \/ RetryCancel
    \/ RetryTop
    \/ RetryTaskReturns
    \/ RetryTick
    \/ RetryWake

RetrySpec == RetryInit /\ [][RetryNext]_vars

(***************************************************************************)
(* LiveSpec: one run of Download under a given retry policy, with or       *)
(* without jitter, every goroutine being scheduled as long as it can run.  *)
(***************************************************************************)

\* The policies Download is run under: MaxRetries attempts, no ShouldRetry, no
\* cap, and either no jitter (a policy built without WithJitter) or some.
DownloadPolicies ==
    {policy \in Policies :
        /\ policy.MaxRetries = MaxRetries
        /\ policy.RetryDelay = 0
        /\ policy.BackoffHalves = 0
        /\ policy.Jitter \in {0, MaxJitter}
        /\ policy.ShouldRetry = "unset"
        /\ policy.MaxTotalRetryDuration = 0
        /\ policy.OnRetry}

LiveInit ==
    /\ cfg = [fileSize |-> 0, ts |-> 0, sz |-> 0]
    /\ sm = NoManager
    /\ tmpFiles = <<>>
    /\ outFiles = <<>>
    /\ mpc = "probe"
    /\ rs = NoRangeSupport
    /\ ctxDone = FALSE
    /\ err = Nil
    /\ errs = <<>>
    /\ ret = "pending"
    /\ wpc = <<>>
    /\ attempt = <<>>
    /\ lastErr = <<>>
    /\ taskCalls = <<>>
    /\ onRetryCalls = <<>>
    /\ log = <<>>
    /\ mi = 0
    /\ del = <<>>
    /\ mergeIn = <<>>
    /\ faults = 0
    /\ hist = NoHist
    /\ \E policy \in DownloadPolicies : rp = [pc |-> "download", policy |-> policy]

\* The steps of Download and of the goroutines it starts; the cancellation of
\* ctx is its owner's step.
ProgramStep ==
    \/ Probe
    \/ Plan
    \/ \E w \in Workers : WorkerStart(w)
    \/ \E w \in Workers : WorkerTop(w)
    \/ \E w \in Workers : WorkerResponse(w)
    \/ \E w \in Workers : WorkerCheck(w)
    \/ Join
    \/ MergeSniff
    \/ MergeAppend
    \/ \E i \in DOMAIN tmpFiles : MergeRemove(i)
    \/ MergeFinish

\* HTTP exchanges and file operations terminate and the scheduler runs every
\* goroutine that can run: a program step that stays possible is taken.
LiveSpec == LiveInit /\ [][Next]_vars /\ WF_vars(ProgramStep)

(***************************************************************************)
(* Properties.                                                             *)
(***************************************************************************)
Finished(w) == wpc[w] \in {"chk", "exit"}
Returned == mpc = "done"
LastStatus(w) == IF log[w] = <<>> THEN 0 ELSE log[w][Len(log[w])]

RECURSIVE Concat(_, _)
\* files[0] \o files[1] \o ... \o files[n - 1]
Concat(files, n) == IF n = 0 THEN <<>> ELSE Concat(files, n - 1) \o files[n - 1]

RECURSIVE SumOfLengths(_, _)
\* the sum of End - Start + 1 over the first n segments
SumOfLengths(segs, n) ==
    IF n = 0 THEN 0 ELSE SumOfLengths(segs, n - 1) + (segs[n].End - segs[n].Start + 1)

\* C1: if the Retry call of any worker returned an error, MergeFiles is not
\* invoked and Download returns an error.
C1_FailedRetryFailsDownload ==
    hist.retryFailed # {} => /\ ~hist.mergeCalled
                             /\ (Returned => ret # Nil)

\* The answers of the retry scenario: a transient status twice, then 206.
RetryScript == <<StatusOther, StatusOther, StatusPartialContent>>
\* What worker w was answered so far is a prefix of the scenario.
FollowsRetryScript(w) ==
    /\ log[w] # <<>>
    /\ Len(log[w]) <= Len(RetryScript)
    /\ \A i \in 1..Len(log[w]) : log[w][i] = RetryScript[i]

\* C2: a segment answered 5xx, 5xx, 206 is fetched with three GETs and two
\* OnRetry calls, and its Retry call succeeds: a worker whose answers so far
\* follow that script has not finished before the script is through.
C2_TransientStatusIsRetried ==
    \A w \in DOMAIN wpc :
        (Finished(w) /\ ~ctxDone /\ FollowsRetryScript(w))
            => /\ taskCalls[w] = 3
               /\ onRetryCalls[w] = 2
               /\ w \notin hist.retryFailed

\* C3: once ctx is cancelled between planning and the end of the fetches,
\* Download returns an error, MergeFiles is not invoked, no final file is made
\* and every segment temp file stays.
C3_CancelFailsDownload ==
    hist.cancelMidFetch =>
        /\ ~hist.mergeCalled
        /\ outFiles = <<>>
        /\ DOMAIN tmpFiles = 0..(sm.TotalSegments - 1)
        /\ (Returned => ret # Nil)

\* The segments of m cover [0, FileSize - 1] without gap or overlap.
Tiles(m) ==
    LET n == Len(m.Segments)
    IN  /\ n >= 1
        /\ m.Segments[1].Start = 0
        /\ m.Segments[n].End = m.FileSize - 1
        /\ \A k \in 1..(n - 1) : m.Segments[k + 1].Start = m.Segments[k].End + 1
        /\ SumOfLengths(m.Segments, n) = m.FileSize

\* C4: for fileSize > 0 the planned segments tile the file: the first starts
\* at 0, the last ends at fileSize - 1, each starts right after its predecessor
\* and the lengths sum to fileSize.
C4_SegmentsTileFile ==
    (sm.Err = Nil /\ cfg.fileSize > 0) => Tiles(sm)

\* C5: a construction that succeeds has at least one segment, and as many
\* segments as TotalSegments says.
C5_AtLeastOneSegment ==
    sm.Err = Nil => /\ sm.TotalSegments >= 1
                    /\ Len(sm.Segments) = sm.TotalSegments

\* C6: while MergeFiles appends, segment 0's file holds the first mi segment
\* files as they were when MergeFiles started, in order; after a successful
\* MergeFiles the final file is the concatenation of all of them.
C6_MergeConcatenates ==
    /\ (mpc = "append" /\ mi >= 1) => tmpFiles[0] = Concat(mergeIn, mi)
    /\ (Returned /\ hist.mergeCalled /\ ret = Nil)
          => /\ DOMAIN outFiles # {}
             /\ \A e \in DOMAIN outFiles : outFiles[e] = Concat(mergeIn, Len(sm.Segments))

C6_Witness ==
    /\ Returned /\ hist.mergeCalled /\ ret = Nil
    /\ Len(sm.Segments) = DefaultNumberOfSegments
    /\ \A i \in DOMAIN mergeIn : mergeIn[i] # <<>>
    /\ \A i, j \in DOMAIN mergeIn : i # j => mergeIn[i] # mergeIn[j]

\* C7: in every state of a segment, whatever download attempts, setErr and
\* setDone calls led to it, a segment that is done has no sticky error and no
\* unflushed bytes.
C7_DoneMeansCleanAndFlushed ==
    \A w \in DOMAIN sm.Segments :
        sm.Segments[w].Done => /\ sm.Segments[w].Err = Nil
                               /\ sm.Segments[w].Buffered = 0

\* Of several segments, w alone was answered 416 and every other one 206.
OneRangeNotSatisfiable(w) ==
    /\ Len(sm.Segments) > 1
    /\ log[w] = <<StatusRequestedRangeNotSatisfiable>>
    /\ \A v \in DOMAIN log : v # w => log[v] = <<StatusPartialContent>>

\* C8: when one segment of several is answered 416 and every other one 206,
\* that segment is done and empty, the merge runs and succeeds, and the final
\* file has as many bytes as the other segments' files together.
C8_RangeNotSatisfiableStillMerges ==
    \A w \in DOMAIN log :
        (OneRangeNotSatisfiable(w) /\ Returned /\ ~ctxDone /\ ~hist.mergeFault)
            => /\ sm.Segments[w].Done
               /\ mergeIn[w - 1] = <<>>
               /\ ret = Nil
               /\ \A e \in DOMAIN outFiles :
                     Len(outFiles[e]) = Len(Concat(mergeIn, Len(sm.Segments)))

\* Every worker's Retry call returned nil on a 206.
AllPartialContent ==
    /\ DOMAIN log # {}
    /\ \A w \in DOMAIN log : LastStatus(w) = StatusPartialContent /\ w \notin hist.retryFailed

Last(q) == q[Len(q)]

RECURSIVE SumOf(_, _)
\* q[1] + ... + q[n]
SumOf(q, n) == IF n = 0 THEN 0 ELSE SumOf(q, n - 1) + q[n]

\* Task invocations started in the Retry run.
TaskInvocations == Len(rp.results) + (IF rp.pc = "task" THEN 1 ELSE 0)

\* C11: the task is invoked at most MaxRetries times; an invocation that
\* returned nil is the last one, Retry has returned nil, and neither an OnRetry
\* call nor a sleep followed it.
C11_StopsAtFirstSuccess ==
    /\ TaskInvocations <= rp.policy.MaxRetries
    /\ \A k \in 1..Len(rp.results) :
          rp.results[k] = Nil
              => /\ k = Len(rp.results)
                 /\ rp.pc = "done"
                 /\ rp.ret = Nil
                 /\ Len(rp.sleeps) = k - 1
                 /\ Len(rp.announced) <= k - 1
                 /\ rp.remaining = 0

C11_Witness ==
    /\ rp.pc = "done"
    /\ rp.ret = Nil
    /\ Len(rp.results) = MaxPolicyRetries
    /\ rp.slept > 0

\* C12: when every invocation failed, ShouldRetry is unset or accepts every
\* error, there is no cap and ctx is not cancelled, a finished Retry has
\* invoked the task MaxRetries times and returned the last invocation's error.
C12_ExhaustedReturnsLastError ==
    (/\ rp.pc = "done"
     /\ ~ctxDone
     /\ \A k \in 1..Len(rp.results) : rp.results[k] # Nil
     /\ rp.policy.ShouldRetry \in {"unset", "all"}
     /\ rp.policy.MaxTotalRetryDuration = 0)
        => /\ Len(rp.results) = rp.policy.MaxRetries
           /\ (rp.results # <<>> => rp.ret = Last(rp.results))

\* ShouldRetry is set and returns false for e.
ShouldRetryRefuses(policy, e) ==
    \/ policy.ShouldRetry = "never"
    \/ policy.ShouldRetry = "transport" /\ e # ErrNet

\* C13: when ShouldRetry is set and refuses the error of the last invocation,
\* Retry has returned that error, and neither a further invocation, nor an
\* OnRetry call, nor a sleep followed it.
C13_RejectedErrorIsReturned ==
    (/\ rp.results # <<>>
     /\ Last(rp.results) # Nil
     /\ ShouldRetryRefuses(rp.policy, Last(rp.results)))
        => /\ rp.pc = "done"
           /\ rp.ret = Last(rp.results)
           /\ Len(rp.sleeps) = Len(rp.results) - 1
           /\ Len(rp.announced) <= Len(rp.results) - 1
           /\ rp.remaining = 0

C13_Witness ==
    /\ rp.pc = "done"
    /\ rp.policy.ShouldRetry = "transport"
    /\ rp.results = <<ErrNet, ErrCopy>>
    /\ rp.ret = ErrCopy

\* C14: with a cap, the sleeps begun and the time slept never exceed it; once
\* the accumulated planned sleep is over the cap, Retry has returned the
\* cap-exceeded error without an OnRetry call or a sleep for that attempt.
C14_CapBoundsSleep ==
    rp.policy.MaxTotalRetryDuration > 0
        => /\ rp.slept <= rp.policy.MaxTotalRetryDuration
           /\ SumOf(rp.sleeps, Len(rp.sleeps)) <= rp.policy.MaxTotalRetryDuration
           /\ rp.totalRetryDuration > rp.policy.MaxTotalRetryDuration
                 => /\ rp.pc = "done"
                    /\ rp.ret = ErrMaxTotalRetryDurationExceeded
                    /\ Len(rp.sleeps) = Len(rp.results) - 1
                    /\ Len(rp.announced) <= Len(rp.results) - 1
           /\ rp.ret = ErrMaxTotalRetryDurationExceeded
                 => rp.totalRetryDuration > rp.policy.MaxTotalRetryDuration

C14_Witness ==
    /\ rp.pc = "done"
    /\ rp.ret = ErrMaxTotalRetryDurationExceeded
    /\ rp.slept > 0
    /\ rp.slept = SumOf(rp.sleeps, Len(rp.sleeps))

\* C15: an attempt that starts with ctx cancelled ends the run with the
\* cancellation error, without an invocation of the task.
C15_CancelledAttemptDoesNotRunTask ==
    [][(rp.pc = "top" /\ ctxDone /\ rp.attempt <= rp.policy.MaxRetries)
          => /\ rp'.pc = "done"
             /\ rp'.ret = ErrCtx
             /\ rp'.results = rp.results]_vars

C15_Witness ==
    /\ rp.pc = "done"
    /\ rp.ret = ErrCtx
    /\ Len(rp.results) >= 1
    /\ Len(rp.results) < rp.policy.MaxRetries

\* C16: once ctx is cancelled during a sleep, Retry spends no more time in
\* that sleep.
C16_SleepIsInterruptible ==
    rp.sleptCancelled = 0

C18_NonPositiveSizeIsOneSegment ==
    (sm.Err = Nil /\ cfg.fileSize <= 0)
        => /\ sm.TotalSegments = 1
           /\ sm.SegmentSize = 0
           /\ Len(sm.Segments) = 1
           /\ sm.Segments[1].Start = 0
           /\ sm.Segments[1].End = 0

\* The least integer that is not below a / b, for b > 0.
Ceiling(a, b) == (a + b - 1) \div b

\* C19: for fileSize > 0 and a segment size given alone, TotalSegments is the
\* ceiling of fileSize / segmentSize.
C19_SegmentCountIsCeiling ==
    (sm.Err = Nil /\ cfg.fileSize > 0 /\ cfg.ts = 0 /\ cfg.sz > 0)
        => /\ sm.TotalSegments = Ceiling(cfg.fileSize, cfg.sz)
           /\ Len(sm.Segments) = sm.TotalSegments

\* C20: for fileSize > 0 and a segment count n given alone, SegmentSize is
\* fileSize div n, segment i < n - 1 covers [i * SegmentSize,
\* (i + 1) * SegmentSize - 1] and the last segment ends at fileSize - 1.
C20_LastSegmentAbsorbsRemainder ==
    (sm.Err = Nil /\ cfg.fileSize > 0 /\ cfg.ts > 0 /\ cfg.sz = 0)
        => /\ sm.SegmentSize = cfg.fileSize \div cfg.ts
           /\ Len(sm.Segments) = cfg.ts
           /\ \A i \in 0..(cfg.ts - 2) :
                 /\ sm.Segments[i + 1].Start = i * sm.SegmentSize
                 /\ sm.Segments[i + 1].End = (i + 1) * sm.SegmentSize - 1
           /\ sm.Segments[cfg.ts].Start = (cfg.ts - 1) * sm.SegmentSize
           /\ sm.Segments[cfg.ts].End = cfg.fileSize - 1

\* The errors whose param field is "TotalSegments, SegmentSize".
OptionErrors == {"InvalidParam:TotalSegments, SegmentSize:exclusive",
                 "InvalidParam:TotalSegments, SegmentSize:negative"}

InvalidParamErrors == OptionErrors \cup {"InvalidParam:segment"}

\* C22: a construction rejected with an invalid-param error has left no
\* segment temp file (and so has not created the directory, which the
\* creation of the first file makes).
C22_RejectionCreatesNothing ==
    sm.Err \in InvalidParamErrors => tmpFiles = <<>>

C22_Witness ==
    /\ sm.Err \in InvalidParamErrors
    /\ cfg.ts = 2
    /\ cfg.sz = 2
    /\ tmpFiles = <<>>

\* Worker w got a response to one of its GETs, which therefore was sent.
GotResponse(w) == \E i \in DOMAIN log[w] : log[w][i] # 0

\* C23: when the probe recorded a content length <= 0, no GET that was sent
\* carried a Range header, whatever Accept-Ranges the probe response carried.
C23_UnknownSizeSendsNoRange ==
    \A w \in DOMAIN log :
        (rs.ContentLength <= 0 /\ GotResponse(w)) => ~SendsRange(rs)

\* C24: once the probe's HEAD was answered with a status other than 200,
\* Download has returned the range-not-supported error, the callback has not
\* touched RangeSupport, and nothing was planned, created, started or fetched.
C24_RejectedProbeStopsDownload ==
    hist.probeStatus \notin {0, StatusOK}
        => /\ Returned
           /\ ret = ErrRangeRequestNotSupported
           /\ rs = NoRangeSupport
           /\ sm = NoManager
           /\ tmpFiles = <<>>
           /\ outFiles = <<>>
           /\ wpc = <<>>
           /\ taskCalls = <<>>
           /\ log = <<>>
           /\ ~hist.mergeCalled

C24_Witness ==
    /\ hist.probeStatus = StatusPartialContent
    /\ Returned
    /\ ret = ErrRangeRequestNotSupported

\* C25: no worker reads or overwrites a value written by another: a worker that
\* has stored its Retry result and not yet tested it finds in err what its own
\* Retry call returned.
C25_RetryResultIsPrivate ==
    \A w \in DOMAIN wpc :
        wpc[w] = "chk" => (err # Nil <=> w \in hist.retryFailed)

\* No GET of the run was answered 416.
NoRangeNotSatisfiable ==
    \A w \in DOMAIN log : \A i \in DOMAIN log[w] :
        log[w][i] # StatusRequestedRangeNotSatisfiable

\* C26: when Download has returned nil for a file of known positive size and no
\* segment was answered 416, there is a final file and it holds exactly
\* ContentLength bytes.
C26_SuccessMeansWholeFile ==
    (Returned /\ ret = Nil /\ rs.ContentLength > 0 /\ NoRangeNotSatisfiable)
        => /\ DOMAIN outFiles # {}
           /\ \A e \in DOMAIN outFiles : Len(outFiles[e]) = rs.ContentLength

\* Worker w's Retry call has returned nil.
RetryReturnedNil(w) ==
    /\ Finished(w)
    /\ w \notin hist.silent
    /\ w \notin hist.retryFailed

\* C27: a segment whose Retry call returned nil has no sticky error, and the
\* setDone(true) of MergeFiles on segment 0 does not fail when every Retry
\* call returned nil.
C27_SuccessClearsStickyError ==
    /\ \A w \in DOMAIN wpc : RetryReturnedNil(w) => sm.Segments[w].Err = Nil
    /\ (/\ Returned
        /\ hist.mergeCalled
        /\ \A w \in DOMAIN wpc : RetryReturnedNil(w))
          => ret # "SegmentError: closing the segment 0 failed"

\* C28: while the segments of a file of known size are fetched, no segment's
\* temp file holds more bytes than its range has, End - Start + 1.
C28_FileWithinRange ==
    (mpc = "wait" /\ sm.FileSize > 0)
        => \A w \in DOMAIN sm.Segments :
              Len(tmpFiles[w - 1]) <= sm.Segments[w].End - sm.Segments[w].Start + 1

\* C29: a Retry run that returned nil has had an invocation of the task return
\* nil, whatever MaxRetries is.
C29_NilOnlyAfterSuccess ==
    (rp.pc = "done" /\ rp.ret = Nil)
        => \E k \in DOMAIN rp.results : rp.results[k] = Nil

\* C30: Download always returns, every worker having left.
C30_DownloadReturns ==
    <>(Returned /\ \A w \in DOMAIN wpc : wpc[w] = "exit")

\* Download has closed and drained errs.
Drained == mpc \in {"sniff", "append"} \/ (Returned /\ wpc # <<>>)

\* C31: every worker has sent at most one error, so errs never holds more than
\* TotalSegments errors and a worker about to send does not block; errs is
\* drained only when every worker has finished.
C31_ErrorChannelNeverBlocks ==
    /\ Len(errs) = Cardinality(hist.published)
    /\ wpc # <<>> => Len(errs) <= sm.TotalSegments
    /\ \A w \in DOMAIN wpc :
          (wpc[w] = "chk" /\ err # Nil) => Len(errs) < sm.TotalSegments
    /\ Drained => \A w \in DOMAIN wpc : wpc[w] = "exit"

C31_Witness ==
    /\ Returned
    /\ Len(errs) = DefaultNumberOfSegments
    /\ sm.TotalSegments = DefaultNumberOfSegments

C33_MergeWaitsForRemovals ==
    (Returned /\ hist.mergeCalled) => \A w \in DOMAIN del : del[w] # "pending"

\* C34: when MergeFiles has returned an error, every segment temp file that
\* existed when it was called still exists.
C34_FailedMergeKeepsFiles ==
    (Returned /\ hist.mergeCalled /\ ret # Nil) => DOMAIN tmpFiles = DOMAIN mergeIn

\* C35: when MergeFiles has returned nil, and so has renamed segment 0's file,
\* segment 0's buffer was flushed and its writer was closed before.
C35_FlushCloseThenRename ==
    (Returned /\ hist.mergeCalled /\ ret = Nil)
        => /\ sm.Segments[1].Done
           /\ sm.Segments[1].Buffered = 0
           /\ sm.Segments[1] = Close(sm.Segments[1])

\* The last n elements of q.
Suffix(q, n) == SubSeq(q, Len(q) - n + 1, Len(q))

\* C36: when MergeFiles opens the segment files, no segment holds bytes in its
\* buffer, and the file of a segment whose last response was a 206 copied
\* completely ends with that response's body, although the segment was never
\* marked done or flushed.
C36_NothingBufferedAtMerge ==
    mpc = "sniff"
        => \A w \in DOMAIN sm.Segments :
              /\ sm.Segments[w].Buffered = 0
              /\ (RetryReturnedNil(w) /\ LastStatus(w) = StatusPartialContent)
                    => LET body == ResponseBody(StatusPartialContent, sm.Segments[w])
                       IN  /\ Len(tmpFiles[w - 1]) >= Len(body)
                           /\ Suffix(tmpFiles[w - 1], Len(body)) = body

C36_Witness ==
    /\ mpc = "sniff"
    /\ Len(sm.Segments) = DefaultNumberOfSegments
    /\ \A w \in DOMAIN sm.Segments :
          /\ LastStatus(w) = StatusPartialContent
          /\ ~sm.Segments[w].Done
          /\ tmpFiles[w - 1] # <<>>

\* C37: in a finished run without cancellation under a policy with OnRetry,
\* OnRetry was called once less than the task was invoked, each call being
\* followed by an invocation, and as many sleeps were begun: none after the
\* last attempt.
C37_OnRetryOnlyBeforeRetry ==
    (rp.pc = "done" /\ ~ctxDone /\ rp.policy.OnRetry /\ rp.results # <<>>)
        => /\ Len(rp.announced) = Len(rp.results) - 1
           /\ Len(rp.sleeps) = Len(rp.results) - 1

C39_NoJitterRetriesNormally ==
    rp.policy.Jitter = 0
        => /\ rp.ret # PanicInt63n
           /\ \A k \in 1..Len(rp.sleeps) :
                 rp.sleeps[k] = rp.policy.RetryDelay + (k * rp.policy.BackoffHalves) \div 2

\* C40: whenever DownloadSegment returns nil on a response that carries a body
\* (200 or 206), the segment's ReadFrom has appended the whole body to the
\* segment's file, whatever the writer-position probe answered: a failing probe
\* never yields success with nothing copied.
C40_ReadFromCopiesWhateverProbe ==
    [][\A w \in DOMAIN sm.Segments :
          (/\ taskCalls'[w] = taskCalls[w] + 1
           /\ lastErr'[w] = Nil
           /\ log'[w][Len(log'[w])] \in {StatusOK, StatusPartialContent})
          => tmpFiles'[w - 1]
               = tmpFiles[w - 1] \o ResponseBody(log'[w][Len(log'[w])], sm.Segments[w])]_vars
====
